---- MODULE Spec2Model ----
(***************************************************************************)
(* Model of pybnn's Bohamiann orchestrator (src/pybnn/bohamiann.py) and of *)
(* the SGHMC and PreconditionedSGLD samplers (src/pybnn/sampler).          *)
(*                                                                         *)
(* Numbers.  The program computes in float64.  The model computes on the  *)
(* integers (parameter values, gradients, momenta, noise draws) and on    *)
(* exact fractions <<numerator, denominator>> where the code divides.     *)
(* A Gaussian draw with positive standard deviation can take any value;   *)
(* the model draws it from a small set of integers.                       *)
(*                                                                         *)
(* Arrays.  A tensor or ndarray is a sequence of numbers; its shape is    *)
(* its length.  An ndarray is a record that either owns its buffer or is  *)
(* a view on the storage of a live parameter tensor.                      *)
(***************************************************************************)
EXTENDS Integers, Sequences, FiniteSets, TLC

\* ---------------------------------------------------------------- bounds
\* the calls the user makes
MaxCalls == 3
\* the largest num_steps, num_burn_in_steps, keep_every of a call of train
MaxSteps == 3
MaxBurnIn == 1
MaxKeep == 2
\* the largest number of test rows
MaxRows == 2
\* the most snapshots the collection grows to
MaxSnapshots == 2
\* how far a parameter value moves from where the default initialisation puts it
MaxVal == 1

\* ------------------------------------------------------------- constants
\* nn.init.constant_(module.bias, val=np.log(1e-3)), rounded to an integer
LogVarInit == -7
\* precondition_decay_rate = 0.99 = DecayNum / DecayDen
DecayNum == 99
DecayDen == 100

\* --------------------------------------------------------------- helpers
Abs(i) == IF i < 0 THEN -i ELSE i

RECURSIVE Sum(_)
Sum(s) == IF Len(s) = 0 THEN 0 ELSE Head(s) + Sum(Tail(s))

Min2(a, b) == IF a < b THEN a ELSE b

\* floor of the square root of n >= 0
ISqrt(n) == CHOOSE r \in 0..n : r * r <= n /\ (r + 1) * (r + 1) > n

RECURSIVE GCD(_, _)
GCD(a, b) == IF b = 0 THEN a ELSE GCD(b, a % b)

\* exact fractions <<n, d>> with d > 0, in lowest terms; NaN is 0/0
NaN == <<0, 0>>
RNorm(p) == IF p[2] = 0 THEN p
            ELSE LET g == GCD(Abs(p[1]), p[2]) IN <<p[1] \div g, p[2] \div g>>
RInt(i) == <<i, 1>>
RAdd(p, q) == RNorm(<<p[1] * q[2] + q[1] * p[2], p[2] * q[2]>>)
RSub(p, q) == RNorm(<<p[1] * q[2] - q[1] * p[2], p[2] * q[2]>>)
RMul(p, q) == RNorm(<<p[1] * q[1], p[2] * q[2]>>)
RDivInt(p, k) == RNorm(<<p[1], p[2] * k>>)

RECURSIVE RSum(_)
RSum(s) == IF Len(s) = 0 THEN RInt(0) ELSE RAdd(Head(s), RSum(Tail(s)))

\* np.mean over a non-empty sequence of fractions
RMean(s) == RDivInt(RSum(s), Len(s))

IsPrefix(s, t) == Len(s) <= Len(t) /\ \A i \in 1..Len(s) : s[i] = t[i]

\* ----------------------------------------------------------------- state
VARIABLES
    sampling_method,      \* self.sampling_method
    do_normalize_input,   \* self.do_normalize_input
    do_normalize_output,  \* self.do_normalize_output
    is_trained,           \* self.is_trained
    sampled_weights,      \* self.sampled_weights: sequence of snapshots
    model,                \* self.model: <<>> while the attribute is not set,
                          \* else <<parameters>>, parameters a sequence of tensors
    x_mean, x_std,        \* <<>> while the attribute is not set, else <<value>>
    y_mean, y_std,
    sampler,              \* the sampler object bound in train's frame
    pc,                   \* "idle", or "loop" inside train's for loop
    frame,                \* train's arguments and loop index
    tae,                  \* train_and_evaluate's frame
    outcome,              \* how the last finished call ended
    calls                 \* the number of calls the user has made

attrs == <<sampling_method, do_normalize_input, do_normalize_output, is_trained,
           sampled_weights, model, x_mean, x_std, y_mean, y_std>>
vars == <<sampling_method, do_normalize_input, do_normalize_output, is_trained,
          sampled_weights, model, x_mean, x_std, y_mean, y_std,
          sampler, pc, frame, tae, outcome, calls>>

Recognised == {"adaptive_sghmc", "sgld", "preconditioned_sgld", "sghmc",
               "constant_sgd", "sghmchd"}
\* the samplers whose source is part of the model, and one unknown identifier
Methods == {"sghmc", "preconditioned_sgld", "bogus"}

NoFrame == [num_steps |-> 0, keep_every |-> 1, num_burn_in_steps |-> 0,
            step |-> 0, continue_training |-> FALSE]
NoTae == [active |-> FALSE, phase |-> "", i |-> 0, num_steps |-> 0,
          validate_every_n_steps |-> 1, keep_every |-> 1, num_burn_in_steps |-> 0,
          lr |-> 0, mdecay |-> 0, data |-> <<>>, n_steps |-> <<>>,
          learning_curve_ll |-> <<>>, learning_curve_mse |-> <<>>]
Unbound == [kind |-> "unbound", lr |-> 0, mdecay |-> 0, scale_grad |-> 0, state |-> <<>>]
\* no call has finished yet, or one is running
NoOutcome == [op |-> "none", status |-> "none", error |-> "", value |-> <<>>]

Returned(op, v) == [op |-> op, status |-> "returned", error |-> "", value |-> v]
Raised(op, e) == [op |-> op, status |-> "raised", error |-> e, value |-> <<>>]

\* Bohamiann.__init__, and m for self.model (<<>>: __init__ does not set it)
Constructed(m) ==
    /\ sampling_method \in Methods
    /\ do_normalize_input \in BOOLEAN
    /\ do_normalize_output \in BOOLEAN
    /\ is_trained = FALSE
    /\ sampled_weights = <<>>
    /\ model = m
    /\ x_mean = <<>> /\ x_std = <<>> /\ y_mean = <<>> /\ y_std = <<>>
    /\ sampler = Unbound
    /\ pc = "idle"
    /\ frame = NoFrame
    /\ tae = NoTae
    /\ outcome = NoOutcome
    /\ calls = 0

Init == Constructed(<<>>)


\* ------------------------------------------------- normalization helpers
\* np.mean(X, axis=0) and np.std(X, axis=0) of a column of numbers; the
\* training columns of the model have an integer mean and deviation
ColMean(X) == Sum(X) \div Len(X)
ColStd(X) ==
    LET mu == ColMean(X)
    IN ISqrt(Sum([k \in 1..Len(X) |-> (X[k] - mu) * (X[k] - mu)]) \div Len(X))

\* pybnn.util.normalization.zero_mean_unit_var_normalization(X, mean, std):
\* m, s are <<>> for None, else <<value>>
zero_mean_unit_var_normalization(X, m, s) ==
    LET mean == IF m = <<>> THEN ColMean(X) ELSE m[1]
        std == IF s = <<>> THEN ColStd(X) ELSE s[1]
    IN [x |-> [k \in 1..Len(X) |-> RDivInt(RInt(X[k] - mean), std)],
        mean |-> mean, std |-> std]

\* pybnn.util.normalization.zero_mean_unit_var_unnormalization
zero_mean_unit_var_unnormalization(r, mean, std) == RAdd(RMul(r, RInt(std)), RInt(mean))

\* Bohamiann.normalize_input, Bohamiann.normalize_output
normalize_input(x, m, s) == zero_mean_unit_var_normalization(x, m, s)
normalize_output(x, m, s) == zero_mean_unit_var_normalization(x, m, s)

\* --------------------------------------------------------------- network
\* The network factory is injected (get_network).  The model instantiates
\* it with input_dimensionality = 1 and the last two layers of the default
\* network: a bias-free Linear(1, 1), randomly initialised (w0), and the
\* AppendLayer whose bias, initialised to log(1e-3), is the log-variance.
get_network(w0) == << <<w0>>, <<LogVarInit>> >>

\* self.model(x): one row <<mean, log-variance>> per input row, x a
\* sequence of fractions
Forward(params, x) ==
    [r \in 1..Len(x) |-> <<RMul(RInt(params[1][1]), x[r]), RInt(params[2][1])>>]

\* d mean / d x of the network, for one input row
ForwardGrad(params) == RInt(params[1][1])

\* ------------------------------------------------------ weights accessor
OwnArray(d) == [own |-> TRUE, data |-> d, base |-> 0]
ViewArray(i) == [own |-> FALSE, data |-> <<>>, base |-> i]
\* what an ndarray holds, given the live parameter tensors
Content(a, params) == IF a.own THEN a.data ELSE params[a.base]

\* what an accessor without the copy would return: arrays that share the
\* parameters' storage
network_weights_aliased(params) == [i \in 1..Len(params) |-> ViewArray(i)]

\* Bohamiann.network_weights (getter): torch.tensor(parameter.data) copies,
\* .numpy() and np.asarray share the copy's buffer
network_weights(params) == [i \in 1..Len(params) |-> OwnArray(params[i])]

\* Tensor.copy_(src): src is broadcast to the shape of dst; <<>> is the
\* RuntimeError of shapes that do not broadcast
copy_(dst, src) ==
    IF Len(src) = Len(dst) THEN <<src>>
    ELSE IF Len(src) = 1 THEN <<[k \in 1..Len(dst) |-> src[1]]>>
    ELSE <<>>

\* the loop of the setter from pair i on: zip stops at the shorter sequence
RECURSIVE SetFrom(_, _, _)
SetFrom(params, weights, i) ==
    IF i > Min2(Len(params), Len(weights))
    THEN [ok |-> TRUE, error |-> "", params |-> params]
    ELSE LET c == copy_(params[i], Content(weights[i], params))
         IN IF c = <<>>
            THEN [ok |-> FALSE, error |-> "RuntimeError", params |-> params]
            ELSE SetFrom([params EXCEPT ![i] = c[1]], weights, i + 1)

\* Bohamiann.network_weights (setter).  no_grad: the caller holds
\* torch.no_grad(); outside it an in-place copy into a parameter that
\* requires grad raises at the first pair.
network_weights_setter(params, weights, no_grad) ==
    IF ~no_grad /\ Min2(Len(params), Len(weights)) > 0
    THEN [ok |-> FALSE, error |-> "RuntimeError", params |-> params]
    ELSE SetFrom(params, weights, 1)

\* -------------------------------------------------------------- samplers
GradVals == 0..1
NoiseVals == 0..1

\* the gradients a minibatch leaves on the parameters: the model draws the
\* ones with the same entry c everywhere
Uniform(params, S) == {[i \in 1..Len(params) |-> c] : c \in S}
UniformLike(params, S) ==
    {[i \in 1..Len(params) |-> [k \in 1..Len(params[i]) |-> c]] : c \in S}
Gradients(params) == UniformLike(params, GradVals)

\* SGHMC.__init__ and PreconditionedSGLD.__init__: TRUE iff ValueError
InvalidLr(lr) == lr < 0

\* SGHMC.step for one parameter.  sample_t is the value drawn by
\* torch.normal(mean=0., std=sigma): sigma is a 0-dim tensor, so is the draw
SGHMCParam(p, g, st, lr, mdecay, sample_t) ==
    LET s0 == IF Len(st) = 0
              THEN [iteration |-> 0, momentum |-> [k \in 1..Len(p) |-> 0]]
              ELSE st[1]
        momentum_t == [k \in 1..Len(p) |->
                          s0.momentum[k] + (-lr * g[k] - mdecay * s0.momentum[k] + sample_t)]
    IN [parameter |-> [k \in 1..Len(p) |-> p[k] + momentum_t[k]],
        state |-> <<[iteration |-> s0.iteration + 1, momentum |-> momentum_t]>>]

\* sigma = sqrt(2 * lr * mdecay / scale_grad) is 0 iff lr * mdecay = 0
SGHMCDraws(lr, mdecay) == IF lr * mdecay = 0 THEN {0} ELSE NoiseVals

\* float64 has a largest finite value; a result beyond it is inf.  The
\* model's floats are exact fractions up to MaxFloat, and Inf beyond.
MaxFloat == 4
Inf == <<1, 0>>

\* momentum * precondition_decay_rate
\*     + (1.0 - precondition_decay_rate) * (gradient ** 2)
\* for one element: gradient ** 2 is computed first, and inf stays inf
PSGLDMomentum(m, g) ==
    IF m[2] = 0 THEN m
    ELSE IF g * g > MaxFloat THEN Inf
    ELSE <<DecayNum * m[1] + (DecayDen - DecayNum) * g * g * m[2], DecayDen * m[2]>>

\* diagonal_bias = 1e-5 = BiasNum / BiasDen
BiasNum == 1
BiasDen == 100000

\* 1. / (torch.sqrt(momentum_t) + diagonal_bias) for one element, by its
\* class: nan for the root of a negative number or of nan, 0 for 1/inf,
\* inf for 1/0, else a positive finite number
Preconditioner(m) ==
    IF m = NaN \/ m[1] < 0 THEN "nan"
    ELSE IF m[2] = 0 THEN "zero"
    ELSE IF m[1] = 0 /\ BiasNum = 0 THEN "inf"
    ELSE "positive"

\* PreconditionedSGLD.step for one parameter.  The moving average of the
\* squared gradient is an exact fraction per element.  delta = mean +
\* Normal(0, 1) * sigma with sigma > 0 takes any value: d is the drawn
\* delta, elementwise; with lr = 0 or a preconditioner of 0 both mean and
\* sigma are 0.
PSGLDParam(p, g, st, lr, d) ==
    LET s0 == IF Len(st) = 0
              THEN [iteration |-> 0, momentum |-> [k \in 1..Len(p) |-> RInt(1)]]
              ELSE st[1]
        momentum_t == [k \in 1..Len(p) |-> PSGLDMomentum(s0.momentum[k], g[k])]
        delta == [k \in 1..Len(p) |->
                     IF lr = 0 \/ Preconditioner(momentum_t[k]) = "zero" THEN 0 ELSE d[k]]
    IN [parameter |-> [k \in 1..Len(p) |-> p[k] - delta[k]],
        state |-> <<[iteration |-> s0.iteration + 1, momentum |-> momentum_t]>>]

\* sampler.step(): every parameter in turn.  g: the gradients left by
\* loss.backward(); n: one scalar draw per parameter (SGHMC); d: one draw
\* per element (PreconditionedSGLD)
SamplerStep(s, params, g, n, d) ==
    LET one(i) == IF s.kind = "sghmc"
                  THEN SGHMCParam(params[i], g[i], s.state[i], s.lr, s.mdecay, n[i])
                  ELSE PSGLDParam(params[i], g[i], s.state[i], s.lr, d[i])
    IN [params |-> [i \in 1..Len(params) |-> one(i).parameter],
        sampler |-> [s EXCEPT !.state = [i \in 1..Len(params) |-> one(i).state]]]

\* the sampler constructed by train for a recognised method: no state yet
NewSampler(kind, params, lr, mdecay, scale_grad) ==
    [kind |-> kind, lr |-> lr, mdecay |-> IF kind = "sghmc" THEN mdecay ELSE 0,
     scale_grad |-> scale_grad, state |-> [i \in 1..Len(params) |-> <<>>]]


\* ----------------------------------------------------------------- train
\* training sets: x_train (N x 1) and y_train (N) as columns
TrainData == {[x |-> <<-1, 1>>, y |-> <<-1, 3>>], [x |-> <<-1, 3>>, y |-> <<-1, 1>>]}
InitVals == {0, 1}
LrVals == {-1, 1}
MdecayVals == {1}

\* the retention test of train's loop
KeepStep(step, num_burn_in_steps, keep_every) ==
    step > num_burn_in_steps /\ (step - num_burn_in_steps) % keep_every = 0

\* the steps of a run of num_steps steps at which a snapshot is recorded
KeptSteps(num_steps, num_burn_in_steps, keep_every) ==
    {t \in 0..(num_steps - 1) : KeepStep(t, num_burn_in_steps, keep_every)}

\* the list of sampled weights after train's "if not continue_training"
ClearedWeights(sw, continue_training) == IF continue_training THEN sw ELSE <<>>

\* values stay within MaxVal of where the default initialisation puts them
InRange(params) ==
    /\ \A k \in 1..Len(params[1]) : Abs(params[1][k]) <= MaxVal
    /\ \A k \in 1..Len(params[2]) : Abs(params[2][k] - LogVarInit) <= MaxVal

\* the error train raises before its first step, "" if none: self.model is
\* read when the sampler is constructed, the samplers' constructors reject a
\* negative lr, and no branch binds a sampler for an unknown method
TrainError(num_steps, lr, continue_training) ==
    IF sampling_method \in Recognised /\ continue_training /\ model = <<>>
    THEN "AttributeError"
    ELSE IF sampling_method \in Recognised /\ InvalidLr(lr) THEN "ValueError"
    ELSE IF sampling_method \notin Recognised /\ num_steps > 0 THEN "UnboundLocalError"
    ELSE ""

\* train, from its first line to the head of the for loop.  An unbound
\* sampler raises at the loop's first statement, sampler.zero_grad(), before
\* the network sees the first minibatch.  nx and ny are what
\* self.normalize_input(x_train) and self.normalize_output(y_train) return,
\* num_datapoints is x_train.shape[0], w0 the draw of the initialisation.
TrainEnter(op, nx, ny, num_datapoints, num_steps, keep_every, num_burn_in_steps, lr, mdecay, continue_training, w0) ==
    LET model1 == IF continue_training THEN model ELSE <<get_network(w0)>>
        sw1 == ClearedWeights(sampled_weights, continue_training)
        known == sampling_method \in Recognised
        error == TrainError(num_steps, lr, continue_training)
    IN /\ sampled_weights' = sw1
       /\ model' = model1
       /\ Len(sw1) + Cardinality(KeptSteps(num_steps, num_burn_in_steps, keep_every))
             <= MaxSnapshots
       /\ x_mean' = IF do_normalize_input THEN <<nx.mean>> ELSE x_mean
       /\ x_std' = IF do_normalize_input THEN <<nx.std>> ELSE x_std
       /\ y_mean' = IF do_normalize_output THEN <<ny.mean>> ELSE y_mean
       /\ y_std' = IF do_normalize_output THEN <<ny.std>> ELSE y_std
       /\ IF error # ""
          THEN /\ pc' = "idle"
               /\ frame' = NoFrame
               /\ sampler' = Unbound
               /\ outcome' = Raised(op, error)
          ELSE /\ pc' = "loop"
               /\ frame' = [num_steps |-> num_steps, keep_every |-> keep_every,
                            num_burn_in_steps |-> num_burn_in_steps, step |-> 0,
                            continue_training |-> continue_training]
               /\ sampler' = IF known
                             THEN NewSampler(sampling_method, model1[1], lr, mdecay,
                                             num_datapoints)
                             ELSE Unbound
               /\ outcome' = NoOutcome
       /\ UNCHANGED <<sampling_method, do_normalize_input, do_normalize_output, is_trained>>

\* a call of train by the user, with the given continue_training and lr
TrainCall(continue_training, lr) ==
    /\ pc = "idle"
    /\ ~tae.active
    /\ calls < MaxCalls
    /\ calls' = calls + 1
    /\ \E data \in TrainData :
          LET nx == normalize_input(data.x, <<>>, <<>>)
              ny == normalize_output(data.y, <<>>, <<>>)
          IN \E num_steps \in 0..MaxSteps, keep_every \in 1..MaxKeep,
                num_burn_in_steps \in 0..MaxBurnIn, mdecay \in MdecayVals,
                w0 \in (IF continue_training THEN {0} ELSE InitVals) :
                TrainEnter("train", nx, ny, Len(data.x), num_steps, keep_every,
                           num_burn_in_steps, lr, mdecay, continue_training, w0)
    /\ UNCHANGED tae

\* a call of train by the user
Train == \E continue_training \in BOOLEAN, lr \in LrVals : TrainCall(continue_training, lr)

\* one pass of train's for loop: zero_grad, loss, backward, sampler.step,
\* and the recording of a snapshot
TrainStep ==
    /\ pc = "loop"
    /\ frame.step < frame.num_steps
    /\ \E g \in Gradients(model[1]),
          n \in Uniform(model[1], IF sampler.kind = "sghmc"
                                  THEN SGHMCDraws(sampler.lr, sampler.mdecay)
                                  ELSE {0}),
          d \in UniformLike(model[1], IF sampler.kind = "sghmc" THEN {0} ELSE NoiseVals) :
          LET r == SamplerStep(sampler, model[1], g, n, d)
          IN /\ InRange(r.params)
             /\ model' = <<r.params>>
             /\ sampler' = r.sampler
             /\ sampled_weights' =
                   IF KeepStep(frame.step, frame.num_burn_in_steps, frame.keep_every)
                   THEN Append(sampled_weights, network_weights(r.params))
                   ELSE sampled_weights
    /\ frame' = [frame EXCEPT !.step = @ + 1]
    /\ UNCHANGED <<sampling_method, do_normalize_input, do_normalize_output, is_trained,
                   x_mean, x_std, y_mean, y_std, pc, tae, outcome, calls>>

\* the loop is exhausted: self.is_trained = True and train returns
TrainReturn ==
    /\ pc = "loop"
    /\ frame.step = frame.num_steps
    /\ is_trained' = TRUE
    /\ pc' = "idle"
    /\ frame' = NoFrame
    /\ outcome' = IF tae.active THEN NoOutcome ELSE Returned("train", <<>>)
    /\ UNCHANGED <<sampling_method, do_normalize_input, do_normalize_output,
                   sampled_weights, model, x_mean, x_std, y_mean, y_std, sampler, tae,
                   calls>>

\* ------------------------------------------------------------ prediction
\* the test sets: the first R rows of one column
TestX(R) == [k \in 1..R |-> k - 1]

Failed(e, m) == [ok |-> FALSE, error |-> e, model |-> m, value |-> <<>>]
Done(v, m) == [ok |-> TRUE, error |-> "", model |-> m, value |-> v]

\* predict's list comprehension from snapshot i on: network_predict loads
\* the snapshot into the network and runs it on x
RECURSIVE PredictLoop(_, _, _, _)
PredictLoop(params, sw, x, i) ==
    IF i > Len(sw)
    THEN [ok |-> TRUE, error |-> "", params |-> params, outputs |-> <<>>]
    ELSE LET set == network_weights_setter(params, sw[i], TRUE)
         IN IF ~set.ok
            THEN [ok |-> FALSE, error |-> set.error, params |-> set.params, outputs |-> <<>>]
            ELSE LET rest == PredictLoop(set.params, sw, x, i + 1)
                 IN [rest EXCEPT !.outputs = <<Forward(set.params, x)>> \o @]

\* what a reversed iteration would return: the individual predictions in
\* reverse collection order
IndividualPredictionsReversed(network_outputs) ==
    [i \in 1..Len(network_outputs) |->
        [r \in 1..Len(network_outputs[i]) |->
            network_outputs[Len(network_outputs) + 1 - i][r][1]]]

\* network_outputs[:, :, 0]
IndividualPredictions(network_outputs) ==
    [i \in 1..Len(network_outputs) |->
        [r \in 1..Len(network_outputs[i]) |-> network_outputs[i][r][1]]]

\* np.mean(network_outputs[:, :, 0], axis=0), R the number of test rows
MeanPrediction(network_outputs, R) ==
    [r \in 1..R |-> RMean([i \in 1..Len(network_outputs) |-> network_outputs[i][r][1]])]

\* np.mean((network_outputs[:, :, 0] - mean_prediction) ** 2, axis=0)
VariancePrediction(network_outputs, mean_prediction, R) ==
    [r \in 1..R |->
        RMean([i \in 1..Len(network_outputs) |->
                 LET dev == RSub(network_outputs[i][r][1], mean_prediction[r])
                 IN RMul(dev, dev)])]

\* Bohamiann.predict: [ok, error, model, value], model the network after
\* the call, value <<mean, variance>> or <<mean, variance, individual>>
predict(x_test, return_individual_predictions) ==
    IF do_normalize_input /\ x_mean = <<>>
    THEN Failed("AttributeError", model)
    ELSE IF Len(sampled_weights) = 0
    THEN Failed("IndexError", model)
    ELSE
    LET R == Len(x_test)
        x_test_ == IF do_normalize_input
                   THEN normalize_input(x_test, x_mean, x_std).x
                   ELSE [k \in 1..R |-> RInt(x_test[k])]
        run == PredictLoop(model[1], sampled_weights, x_test_, 1)
        network_outputs == run.outputs
        mean0 == MeanPrediction(network_outputs, R)
        var0 == VariancePrediction(network_outputs, mean0, R)
        mean_prediction ==
            IF do_normalize_output
            THEN [r \in 1..R |->
                     zero_mean_unit_var_unnormalization(mean0[r], y_mean[1], y_std[1])]
            ELSE mean0
        variance_prediction ==
            IF do_normalize_output
            THEN [r \in 1..R |-> RMul(var0[r], RInt(y_std[1] * y_std[1]))]
            ELSE var0
        outputs1 ==
            IF do_normalize_output
            THEN [i \in 1..Len(network_outputs) |->
                    [r \in 1..R |->
                        <<zero_mean_unit_var_unnormalization(network_outputs[i][r][1],
                                                             y_mean[1], y_std[1]),
                          zero_mean_unit_var_unnormalization(network_outputs[i][r][2],
                                                             y_mean[1], y_std[1])>>]]
            ELSE network_outputs
    IN IF ~run.ok THEN Failed(run.error, <<run.params>>)
       ELSE IF return_individual_predictions
       THEN Done(<<mean_prediction, variance_prediction, IndividualPredictions(outputs1)>>,
                 <<run.params>>)
       ELSE Done(<<mean_prediction, variance_prediction>>, <<run.params>>)

\* a call of predict by the user on a test set of R rows
PredictCall(R, return_individual_predictions) ==
    /\ pc = "idle"
    /\ ~tae.active
    /\ calls < MaxCalls
    /\ calls' = calls + 1
    /\ UNCHANGED <<sampling_method, do_normalize_input, do_normalize_output, is_trained,
                   sampled_weights, x_mean, x_std, y_mean, y_std, sampler, pc, frame, tae>>
    /\ LET res == predict(TestX(R), return_individual_predictions)
       IN /\ model' = res.model
          /\ outcome' = IF res.ok THEN Returned("predict", res.value)
                        ELSE Raised("predict", res.error)

\* a call of predict by the user
Predict ==
    \E R \in 0..MaxRows, return_individual_predictions \in BOOLEAN :
        PredictCall(R, return_individual_predictions)

\* ------------------------------------------------------------- gradients
\* the points at which the predictive gradients are asked for
GradX == {0, 1}

\* "if self.normalize_output:" in f_gradient tests the bound method
\* Bohamiann.normalize_output, which is always true
NormalizeOutputIsTruthy == TRUE

\* Bohamiann.f_gradient: [ok, error, params, g], g = d m / d x
f_gradient(params, weights) ==
    LET set == network_weights_setter(params, weights, TRUE)
    IN IF ~set.ok
       THEN [ok |-> FALSE, error |-> set.error, params |-> set.params, g |-> NaN]
       ELSE IF do_normalize_input /\ x_mean = <<>>
       THEN [ok |-> FALSE, error |-> "AttributeError", params |-> set.params, g |-> NaN]
       ELSE IF NormalizeOutputIsTruthy /\ y_mean = <<>>
       THEN [ok |-> FALSE, error |-> "AttributeError", params |-> set.params, g |-> NaN]
       ELSE LET dm == IF do_normalize_input
                      THEN RDivInt(ForwardGrad(set.params), x_std[1])
                      ELSE ForwardGrad(set.params)
                g == IF NormalizeOutputIsTruthy THEN RMul(dm, RInt(y_std[1])) ELSE dm
            IN [ok |-> TRUE, error |-> "", params |-> set.params, g |-> g]

\* [self.f_gradient(x_test, weights=weights) for weights in self.sampled_weights]
RECURSIVE GradLoop(_, _, _)
GradLoop(params, sw, i) ==
    IF i > Len(sw)
    THEN [ok |-> TRUE, error |-> "", params |-> params, grads |-> <<>>]
    ELSE LET f == f_gradient(params, sw[i])
         IN IF ~f.ok
            THEN [ok |-> FALSE, error |-> f.error, params |-> f.params, grads |-> <<>>]
            ELSE LET rest == GradLoop(f.params, sw, i + 1)
                 IN [rest EXCEPT !.grads = <<f.g>> \o @]

\* Bohamiann.predictive_mean_gradient on the network m (<<>> or <<params>>):
\* np.mean of no gradients is nan
predictive_mean_gradient(m) ==
    IF Len(sampled_weights) = 0 THEN Done(NaN, m)
    ELSE LET run == GradLoop(m[1], sampled_weights, 1)
         IN IF ~run.ok THEN Failed(run.error, <<run.params>>)
            ELSE Done(RMean(run.grads), <<run.params>>)

\* predictive_variance_gradient's last line, from m and funcs (of predict),
\* grads (of the f_gradient calls) and dmdx (of predictive_mean_gradient)
VarianceGradient(m, funcs, grads, dmdx) ==
    RMean([i \in 1..Len(sampled_weights) |->
             RMul(RMul(RInt(2), RSub(funcs[i][1], m)), RSub(grads[i], dmdx))])

\* predictive_variance_gradient after its f_gradient calls
VarianceGradientTail(p, run, dmdx) ==
    IF ~dmdx.ok THEN dmdx
    ELSE Done(VarianceGradient(p.value[1][1], p.value[3], run.grads, dmdx.value),
              dmdx.model)

\* predictive_variance_gradient after its call of predict
VarianceGradientBody(p, run) ==
    IF ~run.ok THEN Failed(run.error, <<run.params>>)
    ELSE VarianceGradientTail(p, run, predictive_mean_gradient(<<run.params>>))

\* predictive_variance_gradient from the result p of its call of predict
VarianceGradientAfter(p) ==
    IF ~p.ok THEN p
    ELSE VarianceGradientBody(p, GradLoop(p.model[1], sampled_weights, 1))

\* Bohamiann.predictive_variance_gradient at the point x
predictive_variance_gradient(x) == VarianceGradientAfter(predict(<<x>>, TRUE))

\* a call of predictive_mean_gradient by the user
PredictiveMeanGradient ==
    /\ pc = "idle"
    /\ ~tae.active
    /\ calls < MaxCalls
    /\ calls' = calls + 1
    /\ UNCHANGED <<sampling_method, do_normalize_input, do_normalize_output, is_trained,
                   sampled_weights, x_mean, x_std, y_mean, y_std, sampler, pc, frame, tae>>
    /\ LET res == predictive_mean_gradient(model)
       IN /\ model' = res.model
          /\ outcome' = IF res.ok THEN Returned("predictive_mean_gradient", res.value)
                        ELSE Raised("predictive_mean_gradient", res.error)

\* a call of predictive_variance_gradient by the user
PredictiveVarianceGradient ==
    /\ pc = "idle"
    /\ ~tae.active
    /\ calls < MaxCalls
    /\ calls' = calls + 1
    /\ UNCHANGED <<sampling_method, do_normalize_input, do_normalize_output, is_trained,
                   sampled_weights, x_mean, x_std, y_mean, y_std, sampler, pc, frame, tae>>
    /\ \E x \in GradX :
          LET res == predictive_variance_gradient(x)
          IN /\ model' = res.model
             /\ outcome' = IF res.ok
                           THEN Returned("predictive_variance_gradient", res.value)
                           ELSE Raised("predictive_variance_gradient", res.error)

\* --------------------------------------------- assignment of the weights
\* the longest sequence assigned, and the largest shape of an array
MaxSupplied == 3
MaxShape == 2

\* the arrays the user supplies, one per shape, and the sequences of them
SuppliedArray(n) == OwnArray([k \in 1..n |-> k])
Supplied ==
    UNION {[1..len -> {SuppliedArray(n) : n \in 1..MaxShape}] : len \in 0..MaxSupplied}

\* networks of one or two parameter tensors, all entries 0: what the user
\* of the setter's docstring assigns to bnn.model before setting weights
SetterNetworks ==
    LET zeros == {[k \in 1..n |-> 0] : n \in 1..MaxShape}
    IN {<<a>> : a \in zeros} \cup {<<a, b>> : a \in zeros, b \in zeros}

\* bnn.network_weights = weights, by the user
SetWeightsCall(weights, no_grad) ==
    /\ pc = "idle"
    /\ ~tae.active
    /\ calls < MaxCalls
    /\ calls' = calls + 1
    /\ IF model = <<>>
       THEN /\ model' = model
            /\ outcome' = Raised("network_weights", "AttributeError")
       ELSE LET set == network_weights_setter(model[1], weights, no_grad)
            IN /\ model' = <<set.params>>
               /\ outcome' = IF set.ok THEN Returned("network_weights", <<>>)
                             ELSE Raised("network_weights", set.error)
    /\ UNCHANGED <<sampling_method, do_normalize_input, do_normalize_output, is_trained,
                   sampled_weights, x_mean, x_std, y_mean, y_std, sampler, pc, frame, tae>>

SetWeights == \E weights \in Supplied, no_grad \in BOOLEAN : SetWeightsCall(weights, no_grad)

\* --------------------------------------------------- train_and_evaluate
\* keep_every's default, which the burn-in call of train runs with
DefaultKeepEvery == 100
MaxValidate == 2
\* the validation set
ValidX == <<0, 1>>
ValidY == <<0, 1>>

\* norm.logpdf(y_valid, loc=mu, scale=np.sqrt(var)) is not computed: an
\* entry of the log-likelihood curve is the mean and variance it is taken at
LogLikelihood(mu, var) == [loc |-> mu, var |-> var]
\* np.mean((y_valid - mu) ** 2)
MeanSquaredError(y_valid, mu) ==
    RMean([r \in 1..Len(y_valid) |->
             LET dev == RSub(RInt(y_valid[r]), mu[r]) IN RMul(dev, dev)])

\* the number of passes of train_and_evaluate's loop
Rounds(num_steps, validate_every_n_steps) == num_steps \div validate_every_n_steps

\* a call of train_and_evaluate by the user, up to the loop of its burn-in
\* call of train
TrainAndEvaluate ==
    /\ pc = "idle"
    /\ ~tae.active
    /\ calls < MaxCalls
    /\ calls' = calls + 1
    /\ \E data \in TrainData :
          LET nx == normalize_input(data.x, <<>>, <<>>)
              ny == normalize_output(data.y, <<>>, <<>>)
          IN \E num_steps \in 0..MaxSteps, validate_every_n_steps \in 1..MaxValidate,
                keep_every \in 1..MaxKeep, num_burn_in_steps \in 0..MaxBurnIn,
                lr \in LrVals, mdecay \in MdecayVals, w0 \in InitVals :
                /\ TrainEnter("train_and_evaluate", nx, ny, Len(data.x), num_burn_in_steps,
                              DefaultKeepEvery, num_burn_in_steps, lr, mdecay, FALSE, w0)
                /\ tae' = IF TrainError(num_burn_in_steps, lr, FALSE) # "" THEN NoTae
                          ELSE [active |-> TRUE, phase |-> "burn-in", i |-> 0,
                                num_steps |-> num_steps,
                                validate_every_n_steps |-> validate_every_n_steps,
                                keep_every |-> keep_every,
                                num_burn_in_steps |-> num_burn_in_steps,
                                lr |-> lr, mdecay |-> mdecay, data |-> data,
                                n_steps |-> <<>>, learning_curve_ll |-> <<>>,
                                learning_curve_mse |-> <<>>]

\* the loop of train_and_evaluate calls train with continue_training=True
TrainAndEvaluateRound ==
    /\ pc = "idle"
    /\ tae.active
    /\ tae.phase \in {"burn-in", "evaluated"}
    /\ tae.i < Rounds(tae.num_steps, tae.validate_every_n_steps)
    /\ LET nx == normalize_input(tae.data.x, <<>>, <<>>)
           ny == normalize_output(tae.data.y, <<>>, <<>>)
       IN TrainEnter("train_and_evaluate", nx, ny, Len(tae.data.x),
                     tae.validate_every_n_steps, tae.keep_every, 0, tae.lr, tae.mdecay,
                     TRUE, 0)
    /\ tae' = IF TrainError(tae.validate_every_n_steps, tae.lr, TRUE) # "" THEN NoTae
              ELSE [tae EXCEPT !.phase = "train"]
    /\ UNCHANGED calls

\* after the continued call of train: predict on the validation set, and
\* the three curves grow by one entry
TrainAndEvaluateValidate ==
    /\ pc = "idle"
    /\ tae.active
    /\ tae.phase = "train"
    /\ LET res == predict(ValidX, FALSE)
       IN /\ model' = res.model
          /\ IF res.ok
             THEN /\ tae' = [tae EXCEPT
                       !.phase = "evaluated",
                       !.i = @ + 1,
                       !.learning_curve_ll =
                            Append(@, LogLikelihood(res.value[1], res.value[2])),
                       !.learning_curve_mse =
                            Append(@, MeanSquaredError(ValidY, res.value[1])),
                       !.n_steps = Append(@, tae.num_burn_in_steps
                                               + (tae.i + 1) * tae.validate_every_n_steps)]
                  /\ outcome' = outcome
             ELSE /\ tae' = NoTae
                  /\ outcome' = Raised("train_and_evaluate", res.error)
    /\ UNCHANGED <<sampling_method, do_normalize_input, do_normalize_output, is_trained,
                   sampled_weights, x_mean, x_std, y_mean, y_std, sampler, pc, frame, calls>>

\* return n_steps, learning_curve_ll, learning_curve_mse
TrainAndEvaluateReturn ==
    /\ pc = "idle"
    /\ tae.active
    /\ tae.phase \in {"burn-in", "evaluated"}
    /\ tae.i = Rounds(tae.num_steps, tae.validate_every_n_steps)
    /\ outcome' = Returned("train_and_evaluate",
                           <<tae.n_steps, tae.learning_curve_ll, tae.learning_curve_mse>>)
    /\ tae' = NoTae
    /\ UNCHANGED <<sampling_method, do_normalize_input, do_normalize_output, is_trained,
                   sampled_weights, model, x_mean, x_std, y_mean, y_std, sampler, pc,
                   frame, calls>>

Next ==
    \/ Train \/ TrainStep \/ TrainReturn
    \/ Predict \/ PredictiveMeanGradient \/ PredictiveVarianceGradient

Spec == Init /\ [][Next]_vars

\* the orchestrator driven through train_and_evaluate only
NextEvaluate ==
    \/ TrainAndEvaluate \/ TrainStep \/ TrainReturn
    \/ TrainAndEvaluateRound \/ TrainAndEvaluateValidate \/ TrainAndEvaluateReturn

SpecEvaluate == Init /\ [][NextEvaluate]_vars

\* the weights setter on a network the user has assigned
InitSetter == \E n \in SetterNetworks : Constructed(<<n>>)
SpecSetter == InitSetter /\ [][SetWeights]_vars

\* ------------------------------------------------- the samplers on their own
\* the steps of a sampler
MaxSamplerSteps == 3

\* one parameter tensor of two equal entries
SamplerParams == << <<0, 0>> >>

\* one array per parameter, shaped like the parameter, entries from S
Elementwise(params, S) ==
    {a \in [1..Len(params) -> UNION {[1..Len(params[i]) -> S] : i \in 1..Len(params)}] :
        \A i \in 1..Len(params) : Len(a[i]) = Len(params[i])}

\* parameter.grad.data of a step: any value per element; for
\* PreconditionedSGLD also the largest finite float
StepGradients(params) ==
    Elementwise(params, IF sampler.kind = "sghmc" THEN GradVals ELSE GradVals \cup {MaxFloat})

\* sampler.step() with gradients g and draws n (SGHMC, one per parameter)
\* and d (PreconditionedSGLD, one per element)
StepWith(g, n, d) ==
    /\ calls < MaxSamplerSteps
    /\ calls' = calls + 1
    /\ LET r == SamplerStep(sampler, model[1], g, n, d)
       IN /\ model' = <<r.params>>
          /\ sampler' = r.sampler
    /\ UNCHANGED <<sampling_method, do_normalize_input, do_normalize_output, is_trained,
                   sampled_weights, x_mean, x_std, y_mean, y_std, pc, frame, tae, outcome>>

Step ==
    \E g \in StepGradients(model[1]),
       n \in Uniform(model[1], IF sampler.kind = "sghmc"
                               THEN SGHMCDraws(sampler.lr, sampler.mdecay)
                               ELSE {0}),
       d \in Elementwise(model[1], IF sampler.kind = "sghmc" THEN {0} ELSE NoiseVals) :
       StepWith(g, n, d)

\* SGHMC(params, lr, mdecay, scale_grad) or PreconditionedSGLD(params, lr,
\* num_train_points) on SamplerParams
InitSampler ==
    /\ sampling_method \in {"sghmc", "preconditioned_sgld"}
    /\ do_normalize_input \in BOOLEAN
    /\ do_normalize_output = TRUE
    /\ is_trained = FALSE
    /\ sampled_weights = <<>>
    /\ model = <<SamplerParams>>
    /\ x_mean = <<>> /\ x_std = <<>> /\ y_mean = <<>> /\ y_std = <<>>
    /\ \E lr \in {l \in LrVals : ~InvalidLr(l)}, mdecay \in MdecayVals :
          sampler = NewSampler(sampling_method, SamplerParams, lr, mdecay, 2)
    /\ pc = "idle"
    /\ frame = NoFrame
    /\ tae = NoTae
    /\ outcome = NoOutcome
    /\ calls = 0

SpecSampler == InitSampler /\ [][Step]_vars

\* ---------------------------------------------------------------- claims
\* a pass of train's loop, and the return of train
IsTrainStep == pc = "loop" /\ pc' = "loop" /\ frame'.step = frame.step + 1
IsTrainReturn == pc = "loop" /\ pc' = "idle"

\* C1: a fresh call of train with num_steps > num_burn_in_steps that runs to
\* completion leaves exactly floor((num_steps - num_burn_in_steps) /
\* keep_every) snapshots in the collection.
C1_SnapshotCount ==
    [][(IsTrainReturn /\ ~frame.continue_training
            /\ frame.num_steps > frame.num_burn_in_steps)
        => Len(sampled_weights') =
              (frame.num_steps - frame.num_burn_in_steps) \div frame.keep_every]_vars

\* C2: the pass of the loop with index t appends a snapshot if and only if
\* t >= num_burn_in_steps and (t - num_burn_in_steps) mod keep_every = 0,
\* and no pass does anything else to the collection.
C2_SnapshotSteps ==
    [][IsTrainStep
        => /\ sampled_weights' # sampled_weights
              <=> (/\ frame.step >= frame.num_burn_in_steps
                   /\ (frame.step - frame.num_burn_in_steps) % frame.keep_every = 0)
           /\ \/ sampled_weights' = sampled_weights
              \/ /\ Len(sampled_weights') = Len(sampled_weights) + 1
                 /\ IsPrefix(sampled_weights, sampled_weights')]_vars

\* the sampler of the previous call of train has made a step
SamplerHasState ==
    /\ sampler.kind # "unbound"
    /\ \E i \in 1..Len(sampler.state) : sampler.state[i] # <<>>

\* C3: a call of train with continue_training=true enters its loop with the
\* sampler state (iteration counter and momentum of every parameter) that
\* the last sampler step of the previous call left.
C3_SamplerStateResumed ==
    [][(pc = "idle" /\ pc' = "loop" /\ frame'.continue_training /\ SamplerHasState)
        => sampler'.state = sampler.state]_vars

\* what the arrays of the snapshots hold, m being self.model
SnapshotContents(sw, m) ==
    [i \in 1..Len(sw) |-> [j \in 1..Len(sw[i]) |-> Content(sw[i][j], m[1])]]

\* the collection before the step is a prefix of the collection after it,
\* every earlier snapshot holding the values it held
SnapshotsKept ==
    /\ Len(sampled_weights) <= Len(sampled_weights')
    /\ IsPrefix(SnapshotContents(sampled_weights, model),
                SnapshotContents(sampled_weights', model'))

\* C4: a continued call of train (accepted or rejected), a pass of the loop
\* and the return of a continued call, predict and the predictive gradients
\* keep the collection as a prefix of what it becomes, every earlier
\* snapshot holding the values it held: a step that does not is none of
\* these operations.
C4_AppendOnly ==
    [][\/ SnapshotsKept
       \/ ~(\/ \E lr \in LrVals : TrainCall(TRUE, lr)
            \/ (IsTrainStep /\ frame.continue_training)
            \/ (IsTrainReturn /\ frame.continue_training)
            \/ Predict \/ PredictiveMeanGradient \/ PredictiveVarianceGradient)]_vars

\* C4 witness: a pass of the loop of a continued call has moved the live
\* parameters away from the snapshot an earlier call recorded.
C4_Witness ==
    /\ pc = "loop"
    /\ frame.continue_training
    /\ frame.step = 1
    /\ Len(sampled_weights) = 1
    /\ SnapshotContents(sampled_weights, model)[1] # model[1]

\* C5: on an orchestrator with an unrecognised sampling method no call of
\* train returns normally, whatever num_steps is.
C5_UnknownMethodRaises ==
    (sampling_method \notin Recognised /\ outcome.op = "train")
        => outcome.status = "raised"

\* C6: a call of train that is rejected (unknown method, negative learning
\* rate) leaves the collection, the network, the statistics and the trained
\* flag as they were before the call.
C6_RejectedCallLeavesState ==
    [][(/\ pc = "idle"
        /\ calls' = calls + 1
        /\ outcome'.op = "train"
        /\ outcome'.status = "raised"
        /\ outcome'.error \in {"ValueError", "UnboundLocalError"})
        => /\ sampled_weights' = sampled_weights
           /\ model' = model
           /\ <<x_mean', x_std', y_mean', y_std'>> = <<x_mean, x_std, y_mean, y_std>>
           /\ is_trained' = is_trained]_vars

\* C7: with a recognised method, train_and_evaluate ends by returning three
\* sequences of length num_steps // validate_every_n_steps, the i-th step
\* index being num_burn_in_steps + (i + 1) * validate_every_n_steps.
C7_EvaluateCompletes ==
    [][(tae.active /\ ~tae'.active /\ sampling_method \in Recognised)
        => /\ outcome'.op = "train_and_evaluate"
           /\ outcome'.status = "returned"
           /\ \A c \in 1..3 :
                 Len(outcome'.value[c]) = Rounds(tae.num_steps, tae.validate_every_n_steps)
           /\ \A i \in 1..Len(outcome'.value[1]) :
                 outcome'.value[1][i] =
                    tae.num_burn_in_steps + i * tae.validate_every_n_steps]_vars

\* the prediction of snapshot i for row r of the test set x: the network's
\* mean with the snapshot's values on the normalized row, un-normalized
SnapshotPrediction(i, x, r) ==
    LET params == SnapshotContents(sampled_weights, model)[i]
        row == IF do_normalize_input
               THEN RDivInt(RInt(x[r] - x_mean[1]), x_std[1])
               ELSE RInt(x[r])
        mean == RMul(RInt(params[1][1]), row)
    IN IF do_normalize_output
       THEN RAdd(RMul(mean, RInt(y_std[1])), RInt(y_mean[1]))
       ELSE mean

\* C8: predict on an ensemble of K >= 1 snapshots and a test set of R rows
\* returns a mean and a variance of R entries each and, when asked for the
\* individual predictions, K rows of R entries, row i being the prediction
\* of the i-th snapshot of the collection.
C8_PredictShapes ==
    [][\A R \in 0..MaxRows, individual \in BOOLEAN :
          (Len(sampled_weights) >= 1 /\ outcome'.op = "predict" /\ PredictCall(R, individual))
          => /\ outcome'.status = "returned"
             /\ Len(outcome'.value) = IF individual THEN 3 ELSE 2
             /\ Len(outcome'.value[1]) = R
             /\ Len(outcome'.value[2]) = R
             /\ individual
                  => /\ Len(outcome'.value[3]) = Len(sampled_weights)
                     /\ \A i \in 1..Len(sampled_weights) :
                           /\ Len(outcome'.value[3][i]) = R
                           /\ \A r \in 1..R :
                                 outcome'.value[3][i][r]
                                    = SnapshotPrediction(i, TestX(R), r)]_vars

\* C8 witness: predict has returned the individual predictions of two
\* snapshots that disagree, for a test set of fewer or more rows than
\* snapshots.
C8_Witness ==
    /\ outcome.op = "predict"
    /\ outcome.status = "returned"
    /\ Len(outcome.value) = 3
    /\ Len(sampled_weights) = 2
    /\ Len(outcome.value[1]) # 2
    /\ Len(outcome.value[1]) > 0
    /\ outcome.value[3][1] # outcome.value[3][2]

\* the sequence holds one array per parameter, of that parameter's shape
Matches(params, weights) ==
    /\ Len(weights) = Len(params)
    /\ \A i \in 1..Len(params) : Len(Content(weights[i], params)) = Len(params[i])

\* C9: assigning a sequence that does not hold exactly one array per
\* parameter, each of the parameter's shape, fails with an error.
C9_SetterRejectsMismatch ==
    [][\A weights \in Supplied, no_grad \in BOOLEAN :
          (model # <<>> /\ SetWeightsCall(weights, no_grad) /\ ~Matches(model[1], weights))
          => outcome'.status = "raised"]_vars

\* C10: predict, predictive_mean_gradient and predictive_variance_gradient
\* leave the live parameters of the network as they were.
C10_PredictionKeepsWeights ==
    [][(Predict \/ PredictiveMeanGradient \/ PredictiveVarianceGradient)
        => model' = model]_vars

\* the normalization statistics
Statistics == <<x_mean, x_std, y_mean, y_std>>

\* C11: once a call of train has completed on a network a fresh call built,
\* a call of train with continue_training=true that is accepted leaves the
\* input and output statistics as they were, whatever training data the
\* continued call is given.
C11_ContinuedKeepsStatistics ==
    [][(/\ pc = "idle" /\ is_trained /\ model # <<>>
        /\ pc' = "loop" /\ frame'.continue_training)
        => Statistics' = Statistics]_vars

\* the input gradient of the mean predicted by snapshot i as the claim has
\* it: the weight of the network, with the input normalization folded in
\* when do_normalize_input and the output scale when do_normalize_output
SnapshotGradient(i) ==
    LET w == RInt(SnapshotContents(sampled_weights, model)[i][1][1])
        dm == IF do_normalize_input THEN RDivInt(w, x_std[1]) ELSE w
    IN IF do_normalize_output THEN RMul(dm, RInt(y_std[1])) ELSE dm

\* C12: on an ensemble of at least one snapshot predictive_mean_gradient
\* and predictive_variance_gradient succeed, and the mean gradient is the
\* mean of the per-snapshot gradients, which carry the output scale if and
\* only if the orchestrator was constructed with normalize_output=true.
C12_GradientUnnormalization ==
    [][(/\ pc = "idle"
        /\ calls' = calls + 1
        /\ Len(sampled_weights) >= 1
        /\ outcome'.op \in {"predictive_mean_gradient", "predictive_variance_gradient"})
        => /\ outcome'.status = "returned"
           /\ outcome'.op = "predictive_mean_gradient"
                => outcome'.value = RMean([i \in 1..Len(sampled_weights) |->
                                              SnapshotGradient(i)])]_vars

\* the momentum of element k of parameter i before its first step is 0
SGHMCMomentum(i, k) ==
    IF sampler.state[i] = <<>> THEN 0 ELSE sampler.state[i][1].momentum[k]

\* two elements of a parameter hold equal values and equal momenta
EqualElements(i, k, l) ==
    /\ model[1][i][k] = model[1][i][l]
    /\ SGHMCMomentum(i, k) = SGHMCMomentum(i, l)

\* a step with equal gradients on the two elements leaves them different
StepSeparates(i, k, l) ==
    \E g \in StepGradients(model[1]),
       n \in Uniform(model[1], SGHMCDraws(sampler.lr, sampler.mdecay)),
       d \in Elementwise(model[1], {0}) :
       /\ g[i][k] = g[i][l]
       /\ StepWith(g, n, d)
       /\ model'[1][i][k] # model'[1][i][l]

\* C13: an SGHMC step draws its noise per element: whenever two elements of
\* a parameter hold equal values and momenta and the noise has a positive
\* deviation, a step with equal gradients on both can leave them different;
\* and every step is momentum' = momentum - lr * gradient - mdecay *
\* momentum + noise, parameter' = parameter + momentum', element by element.
C13_ElementwiseNoise ==
    /\ [](\A i \in 1..Len(model[1]) : \A k, l \in 1..Len(model[1][i]) :
            (/\ sampler.kind = "sghmc"
             /\ sampler.lr * sampler.mdecay # 0
             /\ calls < MaxSamplerSteps
             /\ k # l
             /\ EqualElements(i, k, l))
            => ENABLED StepSeparates(i, k, l))
    /\ [][(sampler.kind = "sghmc" /\ calls' = calls + 1)
          => \A i \in 1..Len(model[1]) : \A k \in 1..Len(model[1][i]) :
                /\ \E gr \in GradVals, noise \in NoiseVals :
                      sampler'.state[i][1].momentum[k]
                         = SGHMCMomentum(i, k) - sampler.lr * gr
                             - sampler.mdecay * SGHMCMomentum(i, k) + noise
                /\ model'[1][i][k]
                      = model[1][i][k] + sampler'.state[i][1].momentum[k]]_vars

\* C14: after any number of PreconditionedSGLD steps with any finite
\* gradients, zero ones included, every element of the moving average of the
\* squared gradient is non-negative and every element of the preconditioner
\* 1 / (sqrt(momentum) + diagonal_bias) is strictly positive and finite.
C14_PreconditionerPositive ==
    sampler.kind = "preconditioned_sgld"
        => \A i \in 1..Len(sampler.state) :
              sampler.state[i] # <<>>
                 => \A k \in 1..Len(sampler.state[i][1].momentum) :
                       LET m == sampler.state[i][1].momentum[k]
                       IN /\ m # NaN
                          /\ m[1] >= 0
                          /\ Preconditioner(m) = "positive"

====
